---- MODULE Spec2Model ----
(***************************************************************************)
(* Model of src/ExtendibleHashFile.hpp: the in-memory directory            *)
(* (ExtendibleHash), the file-backed index (ExtendibleHashFile) with its   *)
(* constructor, search, insert and destructor, and the three files the     *)
(* index works on (raw data file, .ehash bucket file, _index.ehashind      *)
(* directory file).                                                        *)
(***************************************************************************)
EXTENDS Integers, Sequences, FiniteSets, TLC

(* ------------------------------ bounds --------------------------------- *)

\* width of the hash sequence (template parameter global_depth / D)
global_depth == 3
\* keys are 0 .. MaxKey, record payloads 0 .. MaxVal
MaxKey == 3
MaxVal == 0
\* longest raw data file, in records
MaxRaw == 3
\* insert calls made through the public API per open index
MaxInserts == 1
\* constructor calls per behaviour
MaxOpens == 2
\* longest directory lookup is tried on
MaxDirLen == 2
\* sizeof(RecordType) in bytes (template parameter RecordType)
sizeof_RecordType == 500

(* ------------------------- program constants --------------------------- *)

BLOCK_SIZE == 1024
sizeof_long == 8

\* fields of one serialized ExtendibleHashEntry: local_depth, sequence, bucket_ref
ENTRY_FIELDS == 3

ERR_NONE == "none"
ERR_OPEN == "Could not open file."
ERR_CORRUPT == "Corrupt ExtendibleHashFile file structure."
ERR_LOOKUP == "Could not find given hash sequence on ExtendibleHash."

(* --------------------------- helper arithmetic ------------------------- *)

RECURSIVE Pow2(_)
Pow2(n) == IF n = 0 THEN 1 ELSE 2 * Pow2(n - 1)

Min(a, b) == IF a < b THEN a ELSE b

RoundUp(n, a) == ((n + a - 1) \div a) * a

Range(s) == {s[i] : i \in DOMAIN s}

RECURSIVE SeqsUpTo(_, _)
SeqsUpTo(S, n) ==
    IF n = 0 THEN {<<>>}
    ELSE LET shorter == SeqsUpTo(S, n - 1)
         IN  shorter \cup {Append(s, x) : s \in {t \in shorter : Len(t) = n - 1}, x \in S}

(* ----------------------------- data types ------------------------------ *)

Keys == 0 .. MaxKey
Records == [key : Keys, val : 0 .. MaxVal]

\* records a raw data file is filled with
RawRecords == {r \in Records : r.val = 0 /\ r.key \in {0, MaxKey}}

\* all D-character strings over '0'/'1', most significant bit first
BitStrings == [1 .. global_depth -> {"0", "1"}]

\* std::bitset<D>(v).to_string(): character i (1-based) is bit D-i of v
bitset_to_string(v) ==
    [i \in 1 .. global_depth |->
        IF (v \div Pow2(global_depth - i)) % 2 = 1 THEN "1" ELSE "0"]

\* template<RecordType> MAX_RECORDS_PER_BUCKET, for a record of s bytes
MaxRecordsPerBucket(s) == (BLOCK_SIZE - 2 * sizeof_long) \div s

\* sizeof(Bucket<RecordType>) for a record of s bytes: long size, the record
\* array, long next (the long after the array is aligned to sizeof(long))
SizeofBucket(s) ==
    RoundUp(sizeof_long + MaxRecordsPerBucket(s) * s, sizeof_long) + sizeof_long

MAX_RECORDS_PER_BUCKET == MaxRecordsPerBucket(sizeof_RecordType)

sizeof_Bucket == SizeofBucket(sizeof_RecordType)

\* Bucket<RecordType>{}
EmptyBucket == [size |-> 0, records |-> <<>>, next |-> -1]

\* std::hash<KeyType> for an integral KeyType (libstdc++: the value itself)
hash_function(key) == key

\* the Index functor: the key of a record
index(record) == record.key

(* ------------------------------ ExtendibleHash ------------------------- *)

\* variant: the first entry is created at local depth 1
NewEntry_depth1 ==
    [local_depth |-> 1, sequence |-> bitset_to_string(0), bucket_ref |-> 0]

\* ExtendibleHashEntry<D> newEntry{} with sequence := bitset<D>(0).to_string()
NewEntry ==
    [local_depth |-> 0, sequence |-> bitset_to_string(0), bucket_ref |-> 0]

\* variant: the constructor also pushes an entry one level below the last
ExtendibleHash_extraDeep ==
    <<NewEntry, [NewEntry EXCEPT !.local_depth = global_depth + 1]>>

\* ExtendibleHash(): one entry
ExtendibleHash == <<NewEntry>>

\* one byte-image of an entry in the directory file
EntryImage(e) == <<e.local_depth, e.sequence, e.bucket_ref>>

RECURSIVE Serialize(_)
Serialize(entries) ==
    IF entries = <<>> THEN <<>>
    ELSE EntryImage(Head(entries)) \o Serialize(Tail(entries))

\* ExtendibleHash(std::fstream&): read whole entries until the buffer runs
\* out; a short trailing read sets eof and the entry is not pushed
RECURSIVE ExtendibleHashLoad(_)
ExtendibleHashLoad(data) ==
    IF Len(data) < ENTRY_FIELDS THEN <<>>
    ELSE <<[local_depth |-> data[1], sequence |-> data[2], bucket_ref |-> data[3]]>>
         \o ExtendibleHashLoad(SubSeq(data, ENTRY_FIELDS + 1, Len(data)))

\* variant: the comparison loop runs for j <= local_depth
EntryMatches_offByOne(entry, hash_sequence) ==
    \A j \in 0 .. entry.local_depth :
        hash_sequence[global_depth - j] = entry.sequence[global_depth - j]

\* variant: the comparison starts at the first (most significant) character
EntryMatches_fromMsb(entry, hash_sequence) ==
    \A j \in 0 .. entry.local_depth - 1 :
        hash_sequence[j + 1] = entry.sequence[j + 1]

\* the inner loop of lookup: the entry's sequence agrees with hash_sequence
\* on positions D-1-j, j = 0 .. local_depth-1 (1-based: D-j)
EntryMatches(entry, hash_sequence) ==
    \A j \in 0 .. entry.local_depth - 1 :
        hash_sequence[global_depth - j] = entry.sequence[global_depth - j]

\* lookup: first matching entry in vector order, or the runtime_error
RECURSIVE lookupFrom(_, _, _)
lookupFrom(entries, i, hash_sequence) ==
    IF i > Len(entries) THEN [found |-> FALSE, bucket_ref |-> 0]
    ELSE IF EntryMatches(entries[i], hash_sequence)
         THEN [found |-> TRUE, bucket_ref |-> entries[i].bucket_ref]
         ELSE lookupFrom(entries, i + 1, hash_sequence)

lookup(entries, hash_sequence) == lookupFrom(entries, 1, hash_sequence)

(* --------------------------------- state ------------------------------- *)

VARIABLES
    raw_file,      \* raw data file: [exists, recs, tail] (tail = bytes of a cut-off record)
    hash_file,     \* .ehash bucket file: [exists, data] (data = sequence of blocks)
    index_file,    \* _index.ehashind directory file: [exists, data] (flat entry fields)
    primary_key,   \* constructor argument primaryKey
    hash_entries,  \* hash_index->hash_entries (<<>> while there is no object)
    phase,         \* "start", "open", "failed" (constructor threw), "closed", "crashed"
    error,         \* message of the exception the last operation ended with
    insert_log,    \* records insert was called with on the current object, in call order
    cout,          \* what insert printed to std::cout
    last,          \* the last call: [op, key, hash_sequence, result]
    opens          \* number of constructor calls so far

vars == <<raw_file, hash_file, index_file, primary_key, hash_entries, phase,
          error, insert_log, cout, last, opens>>

NoCall(op) ==
    [op |-> op, key |-> 0, hash_sequence |-> bitset_to_string(0), result |-> <<>>]

\* size in bytes of a raw data file
RawSize(raw) == Len(raw.recs) * sizeof_RecordType + raw.tail

raw_size == RawSize(raw_file)

(* ------------------------------- file macros --------------------------- *)

\* SAFE_FILE_CREATE_IF_NOT_EXISTS: open in append mode and close again
SAFE_FILE_CREATE_IF_NOT_EXISTS(file) ==
    IF file.exists THEN file ELSE [exists |-> TRUE, data |-> <<>>]

\* file.peek() == traits_type::eof()
peek_eof(file) == file.data = <<>>

(* ------------------------ ExtendibleHashFile::insert ------------------- *)

\* hash_sequence of insert and search:
\* std::bitset<global_depth>(hash_function(key) % global_depth).to_string()
hash_sequence_of(key) == bitset_to_string(hash_function(key) % global_depth)

\* the state one call of insert works on: the directory, the bucket file,
\* std::cout; ok/error tell whether a call has thrown, log lists the calls
InsertState(entries, file, out) ==
    [ok |-> TRUE, error |-> ERR_NONE, entries |-> entries, file |-> file,
     cout |-> out, log |-> <<>>]

\* variant: the directory entry is re-pointed before the bucket file is opened
insert_directoryFirst(st, record) ==
    IF ~st.ok THEN st
    ELSE IF ~st.file.exists
    THEN [st EXCEPT !.ok = FALSE, !.error = ERR_OPEN,
                    !.entries = <<[NewEntry EXCEPT !.bucket_ref = BLOCK_SIZE]>>,
                    !.log = Append(st.log, record)]
    ELSE [st EXCEPT !.cout = Append(st.cout, 0), !.log = Append(st.log, record)]

\* variant: every insert pushes a directory entry
insert_pushesEntry(st, record) ==
    IF ~st.ok THEN st
    ELSE IF ~st.file.exists
    THEN [st EXCEPT !.ok = FALSE, !.error = ERR_OPEN, !.log = Append(st.log, record)]
    ELSE [st EXCEPT !.entries = Append(st.entries, NewEntry),
                    !.cout = Append(st.cout, 0), !.log = Append(st.log, record)]

\* one call of insert: SAFE_FILE_OPEN(hash_file), lookup, print, close
insert(st, record) ==
    LET found == lookup(st.entries, hash_sequence_of(index(record)))
    IN  IF ~st.ok THEN st
        ELSE IF ~st.file.exists
        THEN [st EXCEPT !.ok = FALSE, !.error = ERR_OPEN,
                        !.log = Append(st.log, record)]
        ELSE IF ~found.found
        THEN [st EXCEPT !.ok = FALSE, !.error = ERR_LOOKUP,
                        !.log = Append(st.log, record)]
        ELSE [st EXCEPT !.cout = Append(st.cout, found.bucket_ref),
                        !.log = Append(st.log, record)]

\* the replay loop of the constructor:
\*   while (!raw_file.eof()) { read(sizeof(RecordType)); if (!eof) insert(tmpRecord); }
\* pos is the number of whole records already read
RECURSIVE Replay(_, _, _)

\* variant: the record buffer is inserted again after the read that hit eof
Replay_noEofCheck(raw, st, pos) ==
    IF (pos + 1) * sizeof_RecordType <= RawSize(raw)
    THEN Replay(raw, insert(st, raw.recs[pos + 1]), pos + 1)
    ELSE IF pos = 0 THEN st ELSE insert(st, raw.recs[pos])

Replay(raw, st, pos) ==
    IF (pos + 1) * sizeof_RecordType <= RawSize(raw)
    THEN Replay(raw, insert(st, raw.recs[pos + 1]), pos + 1)
    ELSE st

(* --------------------------------- Init -------------------------------- *)

RawFiles ==
    {[exists |-> FALSE, recs |-> <<>>, tail |-> 0]}
    \cup [exists : {TRUE}, recs : SeqsUpTo(RawRecords, MaxRaw), tail : {0, 4}]

HashFiles ==
    {[exists |-> FALSE, data |-> <<>>],
     [exists |-> TRUE, data |-> <<>>],
     [exists |-> TRUE, data |-> <<EmptyBucket>>]}

IndexFiles ==
    {[exists |-> FALSE, data |-> <<>>],
     [exists |-> TRUE, data |-> <<>>],
     [exists |-> TRUE, data |-> Serialize(ExtendibleHash)],
     [exists |-> TRUE, data |-> Serialize(ExtendibleHash) \o <<1>>]}

Init ==
    /\ raw_file \in RawFiles
    /\ hash_file \in HashFiles
    /\ index_file \in IndexFiles
    /\ primary_key \in BOOLEAN
    /\ hash_entries = <<>>
    /\ phase = "start"
    /\ error = ERR_NONE
    /\ insert_log = <<>>
    /\ cout = <<>>
    /\ last = NoCall("none")
    /\ opens = 0

(* ------------------------- the constructor (open) ---------------------- *)

Open ==
    /\ phase \in {"start", "failed", "closed"}
    /\ opens < MaxOpens
    /\ opens' = opens + 1
    /\ last' = NoCall("open")
    /\ hash_file' = SAFE_FILE_CREATE_IF_NOT_EXISTS(hash_file)
    /\ index_file' = SAFE_FILE_CREATE_IF_NOT_EXISTS(index_file)
    /\ UNCHANGED <<raw_file, primary_key>>
    /\ IF peek_eof(index_file') /\ peek_eof(hash_file')
       THEN IF ~raw_file.exists
            THEN \* SAFE_FILE_OPEN(raw_file, ...) throws before hash_index is set
                 /\ phase' = "failed"
                 /\ error' = ERR_OPEN
                 /\ hash_entries' = <<>>
                 /\ insert_log' = <<>>
                 /\ UNCHANGED cout
            ELSE LET st == Replay(raw_file,
                                  InsertState(ExtendibleHash, hash_file', cout), 0)
                 IN  /\ phase' = IF st.ok THEN "open" ELSE "failed"
                     /\ error' = st.error
                     /\ hash_entries' = IF st.ok THEN st.entries ELSE <<>>
                     /\ insert_log' = st.log
                     /\ cout' = st.cout
       ELSE IF ~peek_eof(index_file') \/ ~peek_eof(hash_file')
            THEN /\ phase' = "failed"
                 /\ error' = ERR_CORRUPT
                 /\ hash_entries' = <<>>
                 /\ insert_log' = <<>>
                 /\ UNCHANGED cout
            ELSE \* "The index file is not empty, read its contents"
                 /\ phase' = "open"
                 /\ error' = ERR_NONE
                 /\ hash_entries' = ExtendibleHashLoad(index_file'.data)
                 /\ insert_log' = <<>>
                 /\ UNCHANGED cout

(* ------------------------------- insert -------------------------------- *)

Insert ==
    /\ phase = "open"
    /\ Len(insert_log) - Len(raw_file.recs) < MaxInserts
    /\ \E record \in Records :
          LET st == insert([InsertState(hash_entries, hash_file, cout)
                               EXCEPT !.log = insert_log], record)
          IN  /\ insert_log' = st.log
              /\ cout' = st.cout
              /\ hash_entries' = st.entries
              /\ hash_file' = st.file
              /\ error' = st.error
              /\ last' = [op |-> "insert", key |-> index(record),
                          hash_sequence |-> hash_sequence_of(index(record)),
                          result |-> <<>>]
    /\ UNCHANGED <<raw_file, index_file, primary_key, phase, opens>>

(* ------------------------------- search -------------------------------- *)

\* bytes raw_file.read((char *) &bucket, BLOCK_SIZE) stores after seeking to bucket_ref
search_bytes_read(raw, bucket_ref) ==
    IF bucket_ref >= RawSize(raw) THEN 0 ELSE Min(BLOCK_SIZE, RawSize(raw) - bucket_ref)

\* what a search whose read ran past the end of `bucket` may return
GarbageResults == {<<r>> : r \in Records}

SearchOutcome(err, result, crashed) ==
    [error |-> err, result |-> result, crashed |-> crashed]

\* the ways search(key) can end on a directory and a raw data file
search(entries, raw, key) ==
    LET found == lookup(entries, hash_sequence_of(key))
    IN  IF ~raw.exists
        THEN {SearchOutcome(ERR_OPEN, <<>>, FALSE)}
        ELSE IF ~found.found
        THEN {SearchOutcome(ERR_LOOKUP, <<>>, FALSE)}
        ELSE IF search_bytes_read(raw, found.bucket_ref) <= sizeof_Bucket
        THEN \* std::vector<RecordType> result is returned as constructed
             {SearchOutcome(ERR_NONE, <<>>, FALSE)}
        ELSE \* the read wrote past the end of the local `bucket`
             {SearchOutcome(ERR_NONE, <<>>, FALSE), SearchOutcome(ERR_NONE, <<>>, TRUE)}
             \cup {SearchOutcome(ERR_NONE, g, FALSE) : g \in GarbageResults}

Search ==
    /\ phase = "open"
    /\ \E key \in Keys :
          \E outcome \in search(hash_entries, raw_file, key) :
              /\ error' = outcome.error
              /\ phase' = IF outcome.crashed THEN "crashed" ELSE phase
              /\ last' = [op |-> "search", key |-> key,
                          hash_sequence |-> hash_sequence_of(key),
                          result |-> outcome.result]
    /\ UNCHANGED <<raw_file, hash_file, index_file, primary_key, hash_entries,
                   insert_log, cout, opens>>

(* ----------------------------- the destructor -------------------------- *)

\* variant: the destructor writes the image of every entry
destructor_writesEntries(entries) == Serialize(entries)

\* index_file.write() of the destructor: called without a buffer, it
\* transfers no entry
destructor_write(entries) == <<>>

Close ==
    /\ phase = "open"
    /\ phase' = "closed"
    \* SAFE_FILE_OPEN(index_file, index_file_name, flags | std::ios::trunc)
    /\ index_file' = [exists |-> TRUE, data |-> destructor_write(hash_entries)]
    \* delete hash_index
    /\ hash_entries' = <<>>
    /\ error' = ERR_NONE
    /\ last' = NoCall("close")
    /\ UNCHANGED <<raw_file, hash_file, primary_key, insert_log, cout, opens>>

(* ----------------------------- the environment ------------------------ *)

\* the bucket file is removed while the index is open: the next
\* SAFE_FILE_OPEN(hash_file, ...) finds no file to open
RemoveHashFile ==
    /\ phase = "open"
    /\ hash_file.exists
    /\ hash_file' = [exists |-> FALSE, data |-> <<>>]
    /\ last' = NoCall("remove")
    /\ UNCHANGED <<raw_file, index_file, primary_key, hash_entries, phase, error,
                   insert_log, cout, opens>>

Next == Open \/ Insert \/ Search \/ Close \/ RemoveHashFile

Spec == Init /\ [][Next]_vars

(* ------------------- lookup on arbitrary directories ------------------- *)

\* the state outside an index session: no files, no object
Detached ==
    /\ raw_file = [exists |-> FALSE, recs |-> <<>>, tail |-> 0]
    /\ hash_file = [exists |-> FALSE, data |-> <<>>]
    /\ index_file = [exists |-> FALSE, data |-> <<>>]
    /\ primary_key = FALSE
    /\ phase = "start"
    /\ error = ERR_NONE
    /\ insert_log = <<>>
    /\ cout = <<>>
    /\ last = NoCall("none")
    /\ opens = 0

\* entries of every local depth 0 .. D and every sequence; the entry at
\* position i refers to block i-1 of the bucket file
Entries(ref) ==
    [local_depth : 0 .. global_depth, sequence : BitStrings, bucket_ref : {ref}]

RECURSIVE Directories(_)
Directories(n) ==
    IF n = 0 THEN {<<>>}
    ELSE LET shorter == Directories(n - 1)
         IN  shorter \cup {Append(dir, e) : dir \in {t \in shorter : Len(t) = n - 1},
                                            e \in Entries((n - 1) * BLOCK_SIZE)}

LookupInit ==
    /\ hash_entries \in Directories(MaxDirLen)
    /\ Detached

\* hash_index->lookup(hash_sequence): the bucket_ref returned or the error thrown
LookupCall ==
    \E hash_sequence \in BitStrings :
        LET found == lookup(hash_entries, hash_sequence)
        IN  /\ error' = IF found.found THEN ERR_NONE ELSE ERR_LOOKUP
            /\ last' = [op |-> "lookup", key |-> 0, hash_sequence |-> hash_sequence,
                        result |-> IF found.found THEN <<found.bucket_ref>> ELSE <<>>]
            /\ UNCHANGED <<raw_file, hash_file, index_file, primary_key,
                           hash_entries, phase, insert_log, cout, opens>>

SpecLookup == LookupInit /\ [][LookupCall]_vars

(* ------------------ bucket layout for every record size ---------------- *)

LayoutInit ==
    /\ hash_entries = <<>>
    /\ Detached

\* Bucket<RecordType> instantiated for a record of record_size bytes:
\* capacity, the bytes of its three members, and sizeof(Bucket)
BucketLayout ==
    \E record_size \in 1 .. BLOCK_SIZE - 2 * sizeof_long :
        /\ last' = [op |-> "Bucket", record_size |-> record_size,
                    capacity |-> MaxRecordsPerBucket(record_size),
                    members |-> sizeof_long
                                + MaxRecordsPerBucket(record_size) * record_size
                                + sizeof_long,
                    size |-> SizeofBucket(record_size)]
        /\ UNCHANGED <<raw_file, hash_file, index_file, primary_key, hash_entries,
                       phase, error, insert_log, cout, opens>>

SpecLayout == LayoutInit /\ [][BucketLayout]_vars

(* ======================================================================= *)
(* Properties                                                              *)
(* ======================================================================= *)

ZeroSequence == bitset_to_string(0)

MatchingEntries(entries, b) == {i \in DOMAIN entries : EntryMatches(entries[i], b)}

\* C1 - Totality: while an index is open, whatever inserts and searches were
\* made, every D-bit string is matched by exactly one directory entry, so
\* lookup finds an entry for it.
C1_Totality ==
    phase = "open" =>
        \A b \in BitStrings :
            /\ Cardinality(MatchingEntries(hash_entries, b)) = 1
            /\ lookup(hash_entries, b).found

C1_Witness ==
    /\ phase = "open"
    /\ last.op = "search"
    /\ last.hash_sequence # ZeroSequence
    /\ Len(insert_log) > Len(raw_file.recs)

\* C2 - Every inserted record is reachable: a search that returned without
\* error contains every record inserted so far whose key is the searched key.
C2_InsertedReachable ==
    (last.op = "search" /\ error = ERR_NONE) =>
        \A i \in DOMAIN insert_log :
            index(insert_log[i]) = last.key => insert_log[i] \in Range(last.result)

\* C3 - Open with a non-empty directory file and a non-empty bucket file
\* does not fail; the directory is the deserialized directory file.
C3_OpenLoadsDirectory ==
    (last.op = "open" /\ ~peek_eof(index_file) /\ ~peek_eof(hash_file)) =>
        /\ phase = "open"
        /\ error = ERR_NONE
        /\ hash_entries = ExtendibleHashLoad(index_file.data)

\* C4 - Open fails with the structural-corruption error exactly when one of
\* the two files has content and the other is empty, and then there is no
\* index object.
C4_CorruptIffExactlyOne ==
    last.op = "open" =>
        /\ (error = ERR_CORRUPT) <=> (peek_eof(index_file) # peek_eof(hash_file))
        /\ error = ERR_CORRUPT => (phase = "failed" /\ hash_entries = <<>>)

\* C5 - An open that fails with the structural-corruption error on a
\* non-empty directory file and an empty or absent bucket file neither
\* creates nor modifies the bucket file or the directory file.
C5_FailedOpenChangesNoFile ==
    [][(/\ opens' = opens + 1
        /\ error' = ERR_CORRUPT
        /\ ~peek_eof(index_file)
        /\ peek_eof(hash_file))
       => (hash_file' = hash_file /\ index_file' = index_file)]_vars

\* C6 - Build from scratch: right after an open that found the bucket file
\* and the directory file empty (and the raw data file present), the
\* directory has exactly one entry with local_depth 0 and bucket_ref 0, and
\* insert has been called exactly once per complete record of the raw data
\* file, in file order (the replay loop has ended).
C6_BuildFromScratch ==
    (last.op = "open" /\ peek_eof(index_file) /\ peek_eof(hash_file)
        /\ raw_file.exists) =>
        /\ phase = "open"
        /\ error = ERR_NONE
        /\ Len(hash_entries) = 1
        /\ hash_entries[1].local_depth = 0
        /\ hash_entries[1].bucket_ref = 0
        /\ insert_log = raw_file.recs

C6_Witness ==
    /\ last.op = "open"
    /\ phase = "open"
    /\ Len(raw_file.recs) >= 2
    /\ raw_file.recs[1] # raw_file.recs[2]
    /\ raw_file.tail > 0
    /\ insert_log = raw_file.recs

\* C7 - Directory round trip: a close leaves in the directory file the
\* serialization of every in-memory entry, and the directory reloaded from
\* that file answers lookup like the closed one for every D-bit string.
C7_DirectoryRoundTrip ==
    [][(phase = "open" /\ phase' = "closed") =>
        /\ index_file'.data = Serialize(hash_entries)
        /\ \A b \in BitStrings :
              lookup(ExtendibleHashLoad(index_file'.data), b)
                  = lookup(hash_entries, b)]_vars

\* C8 - Empty-index search: on an index built over an empty raw data file
\* and with no insert made, every search returns an empty result without
\* error.
C8_EmptyIndexSearch ==
    (last.op = "search" /\ raw_file.exists /\ raw_size = 0 /\ insert_log = <<>>) =>
        /\ error = ERR_NONE
        /\ last.result = <<>>
        /\ phase = "open"

C8_Witness ==
    /\ last.op = "search"
    /\ raw_file.exists
    /\ raw_size = 0
    /\ insert_log = <<>>
    /\ last.key = 1
    /\ error = ERR_NONE

\* the inserted records with the given key, in insertion order
RECURSIVE MatchesOf(_, _)
MatchesOf(log, key) ==
    IF log = <<>> THEN <<>>
    ELSE IF index(Head(log)) = key
         THEN <<Head(log)>> \o MatchesOf(Tail(log), key)
         ELSE MatchesOf(Tail(log), key)

CountIn(s, x) == Cardinality({i \in DOMAIN s : s[i] = x})

\* C9 - Search result policy: every returned record has the searched key;
\* on a primary-key index the result is one matching record when there is a
\* match; otherwise the result holds all matching records.
C9_SearchPolicy ==
    (last.op = "search" /\ error = ERR_NONE /\ phase = "open") =>
        LET matches == MatchesOf(insert_log, last.key)
        IN  /\ \A i \in DOMAIN last.result : index(last.result[i]) = last.key
            /\ primary_key =>
                  /\ Len(last.result) <= 1
                  /\ matches # <<>> =>
                        (Len(last.result) = 1 /\ last.result[1] \in Range(matches))
            /\ ~primary_key =>
                  \A r \in Records : CountIn(last.result, r) = CountIn(matches, r)

\* C10 - Key addressing: the string insert and search hand to lookup is the
\* low-order D bits of the key's hash (hash mod 2^D).
C10_LowOrderBits ==
    last.op \in {"insert", "search"} =>
        last.hash_sequence
            = bitset_to_string(hash_function(last.key) % Pow2(global_depth))

\* C11 - Insert is atomic on error: an insert call that ends with an error
\* leaves the bucket file, the directory file and every directory entry as
\* they were before the call.
C11_InsertAtomicOnError ==
    [][(phase = "open" /\ insert_log' # insert_log /\ error' # ERR_NONE) =>
        /\ hash_file' = hash_file
        /\ index_file' = index_file
        /\ hash_entries' = hash_entries]_vars

C11_Witness ==
    /\ phase = "open"
    /\ last.op = "insert"
    /\ error = ERR_OPEN
    /\ ~hash_file.exists
    /\ hash_entries = ExtendibleHash

\* the inserted records whose key hashes to the given sequence
SameHash(log, hs) ==
    {i \in DOMAIN log : hash_sequence_of(index(log[i])) = hs}

EmptyRawFile == [exists |-> TRUE, recs |-> <<>>, tail |-> 0]

RECURSIVE InsertAll(_, _)
InsertAll(st, recs) ==
    IF recs = <<>> THEN st ELSE InsertAll(insert(st, Head(recs)), Tail(recs))

LiveBuilt(recs) ==
    InsertAll(InsertState(ExtendibleHash, [exists |-> TRUE, data |-> <<>>], <<>>), recs)

\* the part of the address space an entry claims: its depth and the low
\* local_depth characters of its sequence
Prefix(entry) ==
    [d |-> entry.local_depth,
     bits |-> [j \in 0 .. entry.local_depth - 1 |-> entry.sequence[global_depth - j]]]

MatchingPrefixes(entries, b) ==
    {Prefix(entries[i]) : i \in MatchingEntries(entries, b)}

\* C13 - Idempotent rebuild: the index built by replaying the raw data file
\* and the index built empty and filled through insert with the same
\* records have the same matching prefix for every D-bit string and answer
\* every search the same way.
C13_IdempotentRebuild ==
    (last.op = "open" /\ phase = "open") =>
        LET live == LiveBuilt(raw_file.recs)
        IN  /\ live.ok
            /\ \A b \in BitStrings :
                  MatchingPrefixes(hash_entries, b) = MatchingPrefixes(live.entries, b)
            /\ \A key \in Keys :
                  search(hash_entries, raw_file, key)
                      = search(live.entries, EmptyRawFile, key)

\* the number a D-character sequence spells
RECURSIVE BitsValue(_)
BitsValue(seq) ==
    IF seq = <<>> THEN 0
    ELSE 2 * BitsValue(SubSeq(seq, 1, Len(seq) - 1))
         + (IF seq[Len(seq)] = "1" THEN 1 ELSE 0)

\* the entry's sequence and the bits have the same local_depth low-order bits
LowBitsAgree(entry, bits) ==
    BitsValue(entry.sequence) % Pow2(entry.local_depth)
        = BitsValue(bits) % Pow2(entry.local_depth)

\* C14 - Lookup matching rule: lookup returns the bucket_ref of an entry
\* whose sequence equals the bits on the local_depth lowest-order positions,
\* and raises the error exactly when no entry does.
C14_LookupRule ==
    last.op = "lookup" =>
        LET agreeing == {i \in DOMAIN hash_entries :
                            LowBitsAgree(hash_entries[i], last.hash_sequence)}
        IN  /\ (error = ERR_LOOKUP) <=> (agreeing = {})
            /\ agreeing # {} =>
                  /\ error = ERR_NONE
                  /\ \E i \in agreeing : last.result = <<hash_entries[i].bucket_ref>>

C14_Witness ==
    /\ last.op = "lookup"
    /\ Len(hash_entries) = 2
    /\ hash_entries[1].local_depth = global_depth
    /\ hash_entries[2].local_depth = 2
    /\ ~LowBitsAgree(hash_entries[1], last.hash_sequence)
    /\ last.hash_sequence # hash_entries[2].sequence
    /\ last.result = <<BLOCK_SIZE>>

\* the entry lookup resolves a hash sequence to
TargetOf(entries, hs) == CHOOSE i \in DOMAIN entries : EntryMatches(entries[i], hs)

\* the inserted records whose hash sequence the entry matches
RoutedTo(entry, log) ==
    {k \in DOMAIN log : EntryMatches(entry, hash_sequence_of(index(log[k])))}

\* entry `child` extends entry `old` by the given character at position d
ExtendsBy(child, old, bit) ==
    /\ child.local_depth = old.local_depth + 1
    /\ child.sequence[global_depth - old.local_depth] = bit
    /\ \A j \in 0 .. old.local_depth - 1 :
          child.sequence[global_depth - j] = old.sequence[global_depth - j]

\* C15 - Split on overflow: an insert whose target entry (depth d < D)
\* already received capacity records replaces that entry by two entries of
\* depth d+1, the old prefix extended by 0 and by 1, each with a bucket_ref
\* no other entry has; the other entries stay.
C15_SplitOnOverflow ==
    [][(phase = "open" /\ insert_log' # insert_log /\ error' = ERR_NONE) =>
        LET record == insert_log'[Len(insert_log')]
            t == TargetOf(hash_entries, hash_sequence_of(index(record)))
            old == hash_entries[t]
        IN  (/\ Cardinality(RoutedTo(old, insert_log)) >= MAX_RECORDS_PER_BUCKET
             /\ old.local_depth < global_depth)
            => \E a, b \in DOMAIN hash_entries' :
                  /\ a # b
                  /\ ExtendsBy(hash_entries'[a], old, "0")
                  /\ ExtendsBy(hash_entries'[b], old, "1")
                  /\ hash_entries'[a].bucket_ref # hash_entries'[b].bucket_ref
                  /\ \A c \in DOMAIN hash_entries' \ {a, b} :
                        /\ hash_entries'[c].bucket_ref # hash_entries'[a].bucket_ref
                        /\ hash_entries'[c].bucket_ref # hash_entries'[b].bucket_ref
                        /\ hash_entries'[c] \in Range(hash_entries)
                  /\ \A k \in DOMAIN hash_entries \ {t} :
                        hash_entries[k] \in Range(hash_entries')]_vars

\* the records the blocks of a bucket file hold, block after block
RECURSIVE StoredRecords(_)
StoredRecords(data) ==
    IF data = <<>> THEN <<>>
    ELSE SubSeq(Head(data).records, 1, Head(data).size) \o StoredRecords(Tail(data))

\* C16 - Conservation: the records stored in the buckets are, as a
\* multiset, the records inserted: none lost, none duplicated.
C16_Conservation ==
    phase = "open" =>
        \A r \in Records :
            CountIn(StoredRecords(hash_file.data), r) = CountIn(insert_log, r)

\* C17 - Depth bound: every directory entry of an open index has
\* 0 <= local_depth <= D, so every position D-1-j lookup compares lies
\* inside the D-character sequence.
C17_DepthBound ==
    phase = "open" =>
        \A i \in DOMAIN hash_entries :
            /\ hash_entries[i].local_depth \in 0 .. global_depth
            /\ \A j \in 0 .. hash_entries[i].local_depth - 1 :
                  global_depth - 1 - j \in 0 .. global_depth - 1

C17_Witness ==
    /\ phase = "open"
    /\ last.op = "insert"
    /\ error = ERR_NONE
    /\ Cardinality(SameHash(insert_log, ZeroSequence)) > MAX_RECORDS_PER_BUCKET

\* C18 - The directory is mutated only by split: a search changes neither
\* the directory nor the bucket file nor the directory file; an insert whose
\* target entry has not yet received capacity records leaves the directory
\* as it is; while the index stays open the directory never shrinks.
C18_DirectoryFrame ==
    [][phase = "open" =>
        /\ last'.op = "search" =>
              (/\ hash_entries' = hash_entries
               /\ hash_file' = hash_file
               /\ index_file' = index_file)
        /\ (/\ insert_log' # insert_log
            /\ error' = ERR_NONE
            /\ Cardinality(RoutedTo(
                   hash_entries[TargetOf(hash_entries,
                       hash_sequence_of(index(insert_log'[Len(insert_log')])))],
                   insert_log)) < MAX_RECORDS_PER_BUCKET)
           => hash_entries' = hash_entries
        /\ phase' = "open" => Len(hash_entries') >= Len(hash_entries)]_vars

C18_Witness ==
    /\ phase = "open"
    /\ last.op = "search"
    /\ error = ERR_NONE
    /\ hash_file.exists
    /\ Len(insert_log) = 1
    /\ raw_file.recs = <<>>
    /\ hash_entries = ExtendibleHash

\* C19 - Bucket layout fits the block exactly: for every record size the
\* members of the bucket add up to BLOCK_SIZE, so the BLOCK_SIZE bytes
\* search reads are never more than the Bucket object holds.
C19_BucketFitsBlock ==
    last.op = "Bucket" =>
        /\ last.members = BLOCK_SIZE
        /\ BLOCK_SIZE <= last.size

====
